---- MODULE Spec2Model ----
(***************************************************************************)
(* Model of package status (internal/status/status.go): Status values,     *)
(* their wire records (spb.Status), detail envelopes (anypb.Any), Error    *)
(* wrappers and stack capture.                                             *)
(*                                                                         *)
(* Text (Go strings, []byte) is a sequence of byte values.  The byte 255   *)
(* never occurs in valid UTF-8; every other byte used here is ASCII.       *)
(* Pointers are heap addresses 1..Len(heap) resp. indices into statuses;   *)
(* NIL is the nil pointer.                                                 *)
(***************************************************************************)
EXTENDS Integers, Sequences, FiniteSets, TLC

\* ---------------------------------------------------------------- bounds
MaxCode == 2
MaxStatuses == 2
MaxWire == 1
MaxDetails == 3
MaxVals == 2

\* ------------------------------------------------------------- constants
OK == 0
NIL == 0
depth == 32
skip == 5

Codes == 0..MaxCode

\* ------------------------------------------------ serialization capability
\* Registered message types: full name, indexed by the short name used here.
MessageName == [DebugInfo |-> "google.rpc.DebugInfo", FieldMask |-> "google.protobuf.FieldMask"]

KnownTypes == DOMAIN MessageName

\* urlPrefix + proto.MessageName(m)
TypeURL == [DebugInfo |-> "type.googleapis.com/google.rpc.DebugInfo", FieldMask |-> "type.googleapis.com/google.protobuf.FieldMask"]

ValidUTF8(t) == \A i \in DOMAIN t : t[i] # 255

\* A detail message: DebugInfo{StackEntries} or FieldMask{Paths}; both hold
\* one repeated string field with field number 1.
DebugInfo(entries) == [typ |-> "DebugInfo", entries |-> entries]

FieldMask(paths) == [typ |-> "FieldMask", entries |-> paths]

NilMessage == [typ |-> "nil", entries |-> <<>>]

RECURSIVE EncodeEntriesOmitEmpty(_)
EncodeEntriesOmitEmpty(es) ==
    IF es = <<>> THEN <<>>
    ELSE (IF Head(es) = <<>> THEN <<>> ELSE <<10, Len(Head(es))>> \o Head(es))
         \o EncodeEntriesOmitEmpty(Tail(es))

\* proto.Marshal of the repeated string field 1: per entry the tag byte
\* (1<<3 | 2 = 10), the length, the bytes.
RECURSIVE EncodeEntries(_)
EncodeEntries(es) ==
    IF es = <<>> THEN <<>>
    ELSE <<10, Len(Head(es))>> \o Head(es) \o EncodeEntries(Tail(es))

\* ptypes.MarshalAny: invalid UTF-8 in a string field is an error.
MarshalAny(m) ==
    IF \E i \in DOMAIN m.entries : ~ValidUTF8(m.entries[i])
    THEN [err |-> TRUE, any |-> [type_url |-> "", value |-> <<>>]]
    ELSE [err |-> FALSE,
          any |-> [type_url |-> TypeURL[m.typ], value |-> EncodeEntries(m.entries)]]

\* proto.Unmarshal of a payload into a message with one repeated string
\* field 1: a tag other than 10, a length running past the end, or invalid
\* UTF-8 is an error.
RECURSIVE DecodeEntries(_, _)
DecodeEntries(b, acc) ==
    IF b = <<>> THEN [err |-> FALSE, entries |-> acc]
    ELSE IF b[1] # 10 \/ Len(b) < 2 \/ Len(b) < 2 + b[2]
         THEN [err |-> TRUE, entries |-> <<>>]
         ELSE LET e == SubSeq(b, 3, 2 + b[2])
              IN IF ~ValidUTF8(e) THEN [err |-> TRUE, entries |-> <<>>]
                 ELSE DecodeEntries(SubSeq(b, 3 + b[2], Len(b)), Append(acc, e))

\* The registry lookup of ptypes.Empty: the type of a type URL, "" if none.
TypeOfURL(url) ==
    IF \E t \in KnownTypes : TypeURL[t] = url
    THEN CHOOSE t \in KnownTypes : TypeURL[t] = url
    ELSE ""

\* ptypes.UnmarshalAny(any, &DynamicAny{}).
UnmarshalAny(any) ==
    LET t == TypeOfURL(any.type_url)
        d == DecodeEntries(any.value, <<>>)
    IN IF t = "" \/ d.err
       THEN [err |-> TRUE, msg |-> NilMessage]
       ELSE [err |-> FALSE, msg |-> [typ |-> t, entries |-> d.entries]]

\* proto.Equal on two non-nil spb.Status records.
RECURSIVE EqualDetails(_, _)
EqualDetails(a, b) ==
    IF a = <<>> \/ b = <<>> THEN a = <<>> /\ b = <<>>
    ELSE /\ Head(a).type_url = Head(b).type_url
         /\ Head(a).value = Head(b).value
         /\ EqualDetails(Tail(a), Tail(b))

ProtoEqual(x, y) ==
    /\ x.Code = y.Code
    /\ x.Message = y.Message
    /\ EqualDetails(x.Details, y.Details)

\* ------------------------------------------------------------ stack capture
\* Frames are numbers.  Frames of the runtime and of this package:
Frame == [Callers |-> 101, callers |-> 102, New |-> 103, Newf |-> 104, Err |-> 105, Errorf |-> 106, goexit |-> 99]

\* The frames between New and the caller's frame, innermost first.
EntryFrames(entry) ==
    CASE entry = "New" -> <<>>
      [] entry = "Newf" -> <<Frame.Newf>>
      [] entry = "Err" -> <<Frame.Err>>
      [] entry = "Errorf" -> <<Frame.Err, Frame.Errorf>>

\* The call stack when runtime.Callers runs, innermost first; chain is the
\* caller's part of it.
CallStack(entry, chain) ==
    <<Frame.Callers, Frame.callers, Frame.New>> \o EntryFrames(entry) \o chain

Min(a, b) == IF a < b THEN a ELSE b

\* callers(): runtime.Callers(5, pcs[:]) with 32 slots.
callers(stk) ==
    IF Len(stk) <= skip THEN <<>>
    ELSE SubSeq(stk, skip + 1, Min(Len(stk), skip + depth))

\* fmt.Sprintf("%+v", StackTrace): per frame a newline and the frame's text
\* (function, file and line, here the frame's number).  Function names and
\* file paths are valid UTF-8, so this text always marshals.
RECURSIVE FormatStackTrace(_)
FormatStackTrace(st) ==
    IF st = <<>> THEN <<>>
    ELSE <<10, Head(st)>> \o FormatStackTrace(Tail(st))

\* ------------------------------------------------------------------- inputs
Msgs == {<<65>>, <<66>>}

\* The caller's frames, innermost first, down to the goroutine's root: the
\* call site (frame 1 or 2: two functions, or two lines of one function),
\* the frame both are called from (3), and runtime.goexit.
MainChain == <<1, 3, Frame.goexit>>

Chains == {MainChain, <<2, 3, Frame.goexit>>}

\* A goroutine whose function calls the entry point itself: go f().
ShortChain == <<1, Frame.goexit>>

\* A call chain deeper than the capture buffer: frames 1..depth+2 and
\* runtime.goexit.
LongChain == [i \in 1..(depth + 3) |-> IF i = depth + 3 THEN Frame.goexit ELSE i]

CaptureChains == {MainChain, ShortChain, LongChain}

\* Source errors for NewWithoutStacks: Error() text and the stack text that
\* "%+v" adds to it.
SrcErrors == {[msg |-> <<65>>, trace |-> <<>>], [msg |-> <<66>>, trace |-> <<10, 7>>], [msg |-> <<255>>, trace |-> <<>>]}

D1 == DebugInfo(<<<<65>>, <<>>>>)

F1 == FieldMask(<<<<65>>, <<>>>>)

DBad == DebugInfo(<<<<255>>>>)

DetailInputs == {<<>>, <<D1>>, <<F1, D1>>, <<DBad>>, <<D1, DBad>>}

Truncated == [type_url |-> TypeURL.DebugInfo, value |-> <<10, 2, 65>>]

UnknownType == [type_url |-> "type.googleapis.com/unknown.Type", value |-> <<10, 1, 65>>]

\* Wire records a caller may hold: an OK record that carries details, and an
\* error record whose second envelope is of no registered type.
WireInputs ==
    { [Code |-> OK, Message |-> <<>>, Details |-> <<MarshalAny(D1).any, Truncated>>],
      [Code |-> 1, Message |-> <<65>>, Details |-> <<MarshalAny(F1).any, UnknownType, MarshalAny(D1).any>>] }

\* -------------------------------------------------------------------- state
\* heap:     the spb.Status records, by address
\* wire:     the records the caller holds a pointer to (built by the caller or
\*           returned by Proto); wire[a] is the Status whose Proto() returned
\*           the record at a, NIL once the caller has written to it
\* statuses: the Status structs, by pointer
\* origin:   per Status, the call that made it (history)
\* errs:     the Error wrappers returned so far
\* ret:      the last call and what it returned
VARIABLES heap, wire, statuses, origin, errs, ret

vars == <<heap, wire, statuses, origin, errs, ret>>

NoError == [kind |-> "nil"]

OtherError == [kind |-> "other"]

ErrMarker == [typ |-> "error", entries |-> <<>>]

\* What a *Status points to: nil stands for s == nil || s.s == nil.
Deref(p) ==
    IF p = NIL \/ statuses[p].s = NIL THEN [nil |-> TRUE]
    ELSE [nil |-> FALSE, rec |-> heap[statuses[p].s]]

CodeOf(r) == IF r.nil THEN OK ELSE r.rec.Code

MessageOf(r) == IF r.nil THEN <<>> ELSE r.rec.Message

Code(p) == CodeOf(Deref(p))

Message(p) == MessageOf(Deref(p))

\* s.s.Details, the stored envelopes.
Envelopes(r) == IF r.nil THEN <<>> ELSE r.rec.Details

CloneShallow(rec) == [rec EXCEPT !.Details = <<>>]

\* proto.Clone of the Details field: a new slice holding, per envelope, a
\* new Any with the type URL and a copy of the payload bytes.
RECURSIVE CloneDetails(_)
CloneDetails(ds) ==
    IF ds = <<>> THEN <<>>
    ELSE <<[type_url |-> Head(ds).type_url,
            value |-> [i \in 1..Len(Head(ds).value) |-> Head(ds).value[i]]]>>
         \o CloneDetails(Tail(ds))

\* proto.Clone: a new message into which the record is merged field by field.
Clone(rec) ==
    [Code |-> rec.Code, Message |-> rec.Message, Details |-> CloneDetails(rec.Details)]

CloneAlias(src, fresh) == src

CloneAddr(src, fresh) == fresh

Store(h, a, v) == IF a > Len(h) THEN Append(h, v) ELSE [h EXCEPT ![a] = v]

RECURSIVE AppendDetailsSkip(_, _)
AppendDetailsSkip(p, details) ==
    IF details = <<>> THEN [err |-> FALSE, rec |-> p]
    ELSE LET m == MarshalAny(Head(details))
         IN IF m.err THEN AppendDetailsSkip(p, Tail(details))
            ELSE AppendDetailsSkip([p EXCEPT !.Details = Append(p.Details, m.any)],
                                   Tail(details))

\* The loop of WithDetails over the details, appending to the clone p.
RECURSIVE AppendDetails(_, _)
AppendDetails(p, details) ==
    IF details = <<>> THEN [err |-> FALSE, rec |-> p]
    ELSE LET m == MarshalAny(Head(details))
         IN IF m.err THEN [err |-> TRUE, rec |-> p]
            ELSE AppendDetails([p EXCEPT !.Details = Append(p.Details, m.any)],
                               Tail(details))

WithDetailsNoCheck(r, details) ==
    LET a == AppendDetails(IF r.nil THEN [Code |-> OK, Message |-> <<>>, Details |-> <<>>] ELSE Clone(r.rec), details)
    IN IF a.err THEN [err |-> TRUE] ELSE [err |-> FALSE, rec |-> a.rec]

\* (*Status).WithDetails on the value r: the error flag and, without error,
\* the record of the new Status.
WithDetails(r, details) ==
    IF CodeOf(r) = OK THEN [err |-> TRUE]
    ELSE LET a == AppendDetails(Clone(r.rec), details)
         IN IF a.err THEN [err |-> TRUE] ELSE [err |-> FALSE, rec |-> a.rec]

RECURSIVE DetailsLoopBreak(_, _)
DetailsLoopBreak(envs, details) ==
    IF envs = <<>> THEN details
    ELSE LET u == UnmarshalAny(Head(envs))
         IN IF u.err THEN Append(details, ErrMarker)
            ELSE DetailsLoopBreak(Tail(envs), Append(details, u.msg))

\* The loop of (*Status).Details.
RECURSIVE DetailsLoop(_, _)
DetailsLoop(envs, details) ==
    IF envs = <<>> THEN details
    ELSE LET u == UnmarshalAny(Head(envs))
         IN DetailsLoop(Tail(envs),
                        Append(details, IF u.err THEN ErrMarker ELSE u.msg))

Details(r) == IF r.nil THEN <<>> ELSE DetailsLoop(r.rec.Details, <<>>)

StatusErrAlways(r, p) == [kind |-> "Error", s |-> p]

\* (*Status).Err on the Status at p whose value is r.
StatusErr(r, p) == IF CodeOf(r) = OK THEN NoError ELSE [kind |-> "Error", s |-> p]

IsCodeAndMessage(e, target) ==
    IF target.kind # "Error" THEN FALSE
    ELSE /\ Code(e.s) = Code(target.s)
         /\ Message(e.s) = Message(target.s)

\* (*Error).Is
Is(e, target) ==
    IF target.kind # "Error" THEN FALSE
    ELSE ProtoEqual(heap[statuses[e.s].s], heap[statuses[target.s].s])

\* ---------------------------------------------------------- Error.Stacks
\* The characters of a type URL in formatted text: one letter per URL.
URLText(url) ==
    CASE url = TypeURL.DebugInfo -> <<68>>
      [] url = TypeURL.FieldMask -> <<70>>
      [] OTHER -> <<63>>

\* The text format's escaping of a string or bytes value: a newline is
\* written as backslash n, a tab as backslash t.
RECURSIVE EscapeText(_)
EscapeText(t) ==
    IF t = <<>> THEN <<>>
    ELSE (CASE Head(t) = 10 -> <<92, 110>>
            [] Head(t) = 9 -> <<92, 116>>
            [] OTHER -> <<Head(t)>>)
         \o EscapeText(Tail(t))

Quote(t) == <<34>> \o EscapeText(t) \o <<34>>

RECURSIVE QuoteEntries(_)
QuoteEntries(es) ==
    IF es = <<>> THEN <<>> ELSE Quote(Head(es)) \o QuoteEntries(Tail(es))

\* (*anypb.Any).String(): the envelope in text format.  An envelope whose
\* type is registered and whose payload decodes is written expanded,
\* [url]:{field:"..."}; any other is written as type_url:"..." value:"...".
AnyString(any) ==
    LET u == UnmarshalAny(any)
    IN IF u.err THEN URLText(any.type_url) \o Quote(any.value)
       ELSE <<91>> \o URLText(any.type_url) \o <<93>> \o QuoteEntries(u.msg.entries)

\* strings.Replace(t, old, new, -1) for a two-byte old.
RECURSIVE Replace(_, _, _)
Replace(t, old, new) ==
    IF Len(t) < 2 THEN t
    ELSE IF SubSeq(t, 1, 2) = old THEN new \o Replace(SubSeq(t, 3, Len(t)), old, new)
         ELSE <<Head(t)>> \o Replace(Tail(t), old, new)

\* (*Error).Stacks: the text of Details[0], whatever its type; panic stands
\* for the nil dereference of e.s.s.
Stacks(e) ==
    IF e.s = NIL THEN [panic |-> FALSE, text |-> <<>>]
    ELSE IF statuses[e.s].s = NIL THEN [panic |-> TRUE, text |-> <<>>]
    ELSE LET ds == heap[statuses[e.s].s].Details
         IN IF Len(ds) = 0 THEN [panic |-> FALSE, text |-> <<>>]
            ELSE [panic |-> FALSE,
                  text |-> Replace(Replace(AnyString(ds[1]), <<92, 110>>, <<10>>), <<92, 116>>, <<9>>)]


\* ------------------------------------------------------ address metadata
\* Package metadata (internal/metadata): mdValue is a metadata.MD, a map
\* from a key to a list of values.  A map is a function on its key set.
MDKeys == {"a", "b"}

MDStrings == {"x", "y"}

MDVals == UNION {[1..n -> MDStrings] : n \in 0..MaxVals}

MDs == UNION {[ks -> MDVals] : ks \in SUBSET MDKeys}

mdValue(md) == [kind |-> "mdValue", md |-> md]

\* The arguments of Equal: an mdValue, or a value of another type.
MDOthers == {mdValue(md) : md \in MDs} \cup {[kind |-> "other"]}

\* m.Equal(o); om[k] of a missing key is the nil list.
Equal(m, o) ==
    IF o.kind # "mdValue" THEN FALSE
    ELSE LET om == o.md
         IN IF Cardinality(DOMAIN m) # Cardinality(DOMAIN om) THEN FALSE
            ELSE \A k \in DOMAIN m :
                    LET v == m[k]
                        ov == IF k \in DOMAIN om THEN om[k] ELSE <<>>
                    IN /\ Len(ov) = Len(v)
                       /\ \A i \in DOMAIN v : ov[i] = v[i]

Init ==
    /\ heap = <<>>
    /\ wire = <<>>
    /\ statuses = <<>>
    /\ origin = <<>>
    /\ errs = {}
    /\ ret = [op |-> "init"]

Ptrs == {NIL} \cup (1..Len(statuses))

\* New, Newf, Err, Errorf: New(c, msg) called through entry from the call
\* chain chain; Err and Errorf return New(c, msg).Err().
DoNew(entry, c, msg, chain) ==
    LET text == FormatStackTrace(callers(CallStack(entry, chain)))
        newStatus == [nil |-> FALSE, rec |-> [Code |-> c, Message |-> msg, Details |-> <<>>]]
        w == WithDetails(newStatus, <<DebugInfo(<<text>>)>>)
        a == Len(heap) + 1
        p == IF w.err THEN NIL ELSE Len(statuses) + 1
        r == IF w.err THEN [nil |-> TRUE] ELSE [nil |-> FALSE, rec |-> w.rec]
        e == IF entry \in {"Err", "Errorf"} THEN StatusErr(r, p) ELSE NoError
    IN /\ Len(statuses) < MaxStatuses
       /\ heap' = IF w.err THEN heap ELSE Append(heap, w.rec)
       /\ statuses' = IF w.err THEN statuses ELSE Append(statuses, [s |-> a])
       /\ origin' = IF w.err THEN origin
                    ELSE Append(origin, [via |-> "New", entry |-> entry, chain |-> chain, from |-> NIL])
       /\ errs' = IF e.kind = "Error" THEN errs \cup {e} ELSE errs
       /\ ret' = [op |-> entry, c |-> c, msg |-> msg, chain |-> chain, res |-> p, error |-> e,
                  marshalErr |-> MarshalAny(DebugInfo(<<text>>)).err]
       /\ UNCHANGED wire

\* NewWithoutStacks(c, e)
DoNewWithoutStacks(c, e) ==
    LET newStatus == [nil |-> FALSE, rec |-> [Code |-> c, Message |-> e.msg, Details |-> <<>>]]
        d == DebugInfo(<<e.msg \o e.trace>>)
        w == WithDetails(newStatus, <<d>>)
        a == Len(heap) + 1
        p == IF w.err THEN NIL ELSE Len(statuses) + 1
    IN /\ Len(statuses) < MaxStatuses
       /\ heap' = IF w.err THEN heap ELSE Append(heap, w.rec)
       /\ statuses' = IF w.err THEN statuses ELSE Append(statuses, [s |-> a])
       /\ origin' = IF w.err THEN origin
                    ELSE Append(origin, [via |-> "NewWithoutStacks", entry |-> "NewWithoutStacks", chain |-> <<>>, from |-> NIL])
       /\ ret' = [op |-> "NewWithoutStacks", c |-> c, msg |-> e.msg, res |-> p,
                  marshalErr |-> MarshalAny(d).err]
       /\ UNCHANGED <<wire, errs>>

\* The caller builds a wire record.
DoNewWire(w) ==
    /\ Cardinality(DOMAIN wire) < MaxWire
    /\ heap' = Append(heap, w)
    /\ wire' = wire @@ ((Len(heap) + 1) :> NIL)
    /\ ret' = [op |-> "NewWire", res |-> Len(heap) + 1]
    /\ UNCHANGED <<statuses, origin, errs>>

\* The caller writes to a wire record it holds.
DoMutateWire(a, w) ==
    /\ a \in DOMAIN wire
    /\ heap[a] # w
    /\ heap' = [heap EXCEPT ![a] = w]
    /\ wire' = [wire EXCEPT ![a] = NIL]
    /\ ret' = [op |-> "MutateWire", a |-> a, was |-> wire[a]]
    /\ UNCHANGED <<statuses, origin, errs>>

\* FromProto(s) for the wire record at a (or nil).
DoFromProto(a) ==
    LET fresh == Len(heap) + 1
        t == IF a = NIL THEN NIL ELSE CloneAddr(a, fresh)
    IN /\ a \in {NIL} \cup DOMAIN wire
       /\ Len(statuses) < MaxStatuses
       /\ heap' = IF a = NIL THEN heap ELSE Store(heap, t, Clone(heap[a]))
       /\ statuses' = Append(statuses, [s |-> t])
       /\ origin' = Append(origin, [via |-> "FromProto", entry |-> "FromProto", chain |-> <<>>, from |-> a])
       /\ ret' = [op |-> "FromProto", w |-> a, res |-> Len(statuses) + 1]
       /\ UNCHANGED <<wire, errs>>

\* s.Proto() for the Status at p (or the nil *Status).
DoProto(p) ==
    LET fresh == Len(heap) + 1
        src == IF p = NIL THEN NIL ELSE statuses[p].s
        t == IF src = NIL THEN NIL ELSE CloneAddr(src, fresh)
    IN /\ p \in Ptrs
       /\ Cardinality(DOMAIN wire) < MaxWire
       /\ heap' = IF t = NIL THEN heap ELSE Store(heap, t, Clone(heap[src]))
       /\ wire' = IF t = NIL THEN wire ELSE (t :> p) @@ wire
       /\ ret' = [op |-> "Proto", recv |-> p, res |-> t]
       /\ UNCHANGED <<statuses, origin, errs>>

\* s.WithDetails(details...) for the Status at p (or the nil *Status).
DoWithDetails(p, details) ==
    LET r == Deref(p)
        w == WithDetails(r, details)
        fresh == Len(heap) + 1
        t == IF w.err THEN NIL ELSE CloneAddr(statuses[p].s, fresh)
    IN /\ p \in Ptrs
       /\ Len(statuses) < MaxStatuses
       /\ Len(Envelopes(r)) + Len(details) <= MaxDetails
       /\ heap' = IF w.err THEN heap ELSE Store(heap, t, w.rec)
       /\ statuses' = IF w.err THEN statuses ELSE Append(statuses, [s |-> t])
       /\ origin' = IF w.err THEN origin
                    ELSE Append(origin, [via |-> "WithDetails", entry |-> "WithDetails", chain |-> <<>>, from |-> NIL])
       /\ ret' = [op |-> "WithDetails", recv |-> p, details |-> details,
                  res |-> IF w.err THEN NIL ELSE Len(statuses) + 1, err |-> w.err]
       /\ UNCHANGED <<wire, errs>>

\* s.Details()
DoDetails(p) ==
    /\ p \in Ptrs
    /\ ret' = [op |-> "Details", recv |-> p, res |-> Details(Deref(p))]
    /\ UNCHANGED <<heap, wire, statuses, origin, errs>>

\* s.Err()
DoErr(p) ==
    LET e == StatusErr(Deref(p), p)
    IN /\ p \in Ptrs
       /\ errs' = IF e.kind = "Error" THEN errs \cup {e} ELSE errs
       /\ ret' = [op |-> "Status.Err", recv |-> p, error |-> e]
       /\ UNCHANGED <<heap, wire, statuses, origin>>

\* e.Is(target)
DoIs(e, target) ==
    /\ e \in errs
    /\ target \in errs \cup {NoError, OtherError}
    /\ ret' = [op |-> "Is", e |-> e, target |-> target, res |-> Is(e, target)]
    /\ UNCHANGED <<heap, wire, statuses, origin, errs>>

\* e.Stacks()
DoStacks(e) ==
    LET r == Stacks(e)
    IN /\ e \in errs
       /\ ret' = [op |-> "Stacks", e |-> e, panic |-> r.panic, res |-> r.text]
       /\ UNCHANGED <<heap, wire, statuses, origin, errs>>

\* mdValue(m).Equal(o)
DoEqual(m, o) ==
    /\ ret' = [op |-> "Equal", m |-> m, o |-> o, res |-> Equal(m, o)]
    /\ UNCHANGED <<heap, wire, statuses, origin, errs>>

Next ==
    \/ \E entry \in {"New", "Newf", "Err", "Errorf"}, c \in Codes, msg \in Msgs, chain \in {MainChain} :
          DoNew(entry, c, msg, chain)
    \/ \E c \in Codes, e \in SrcErrors : DoNewWithoutStacks(c, e)
    \/ \E w \in WireInputs : DoNewWire(w)
    \/ \E a \in DOMAIN wire, w \in WireInputs : DoMutateWire(a, w)
    \/ \E a \in {NIL} \cup DOMAIN wire : DoFromProto(a)
    \/ \E p \in Ptrs : DoProto(p)
    \/ \E p \in Ptrs, details \in DetailInputs : DoWithDetails(p, details)
    \/ \E p \in Ptrs : DoDetails(p)
    \/ \E p \in Ptrs : DoErr(p)
    \/ \E e \in errs, target \in errs \cup {NoError, OtherError} : DoIs(e, target)

Spec == Init /\ [][Next]_vars

\* The constructors called from two call sites (frames 1 and 2) that share
\* their callers, and the comparison of the errors.
NextSites ==
    \/ \E entry \in {"New", "Newf", "Err", "Errorf"}, c \in Codes, msg \in Msgs, chain \in Chains :
          DoNew(entry, c, msg, chain)
    \/ \E p \in Ptrs : DoErr(p)
    \/ \E e \in errs, target \in errs \cup {NoError, OtherError} : DoIs(e, target)

SpecSites == Init /\ [][NextSites]_vars

\* Statuses built by Err and statuses received from the wire, their Error
\* wrappers and Stacks.
NextStacks ==
    \/ \E c \in Codes, msg \in Msgs : DoNew("Err", c, msg, MainChain)
    \/ \E w \in WireInputs : DoNewWire(w)
    \/ \E a \in {NIL} \cup DOMAIN wire : DoFromProto(a)
    \/ \E p \in Ptrs : DoErr(p)
    \/ \E e \in errs : DoStacks(e)

SpecStacks == Init /\ [][NextStacks]_vars

\* The constructors called from a shallow, an ordinary and a deep call
\* chain, and the accessor that shows what was captured.
NextCapture ==
    \/ \E entry \in {"New", "Newf", "Err", "Errorf"}, c \in Codes, msg \in Msgs, chain \in CaptureChains :
          DoNew(entry, c, msg, chain)
    \/ \E p \in Ptrs : DoDetails(p)

SpecCapture == Init /\ [][NextCapture]_vars

\* Comparisons of address metadata.
NextMD == \E m \in MDs, o \in MDOthers : DoEqual(m, o)

SpecMD == Init /\ [][NextMD]_vars

\* ------------------------------------------------------------------ claims
\* What the accessors and the wire show of the Status at p.
View(p) == [code |-> Code(p), message |-> Message(p), details |-> Envelopes(Deref(p))]

\* C1: Err(c, m) and Errorf return the nil error if and only if c is OK,
\* s.Err() returns the nil error if and only if s.Code() is OK, and every
\* Error wrapper returned wraps a non-nil Status whose Code() is not OK.
ErrNilIffOK ==
    /\ ret.op \in {"Err", "Errorf"} => (ret.error = NoError <=> ret.c = OK)
    /\ ret.op = "Status.Err" => (ret.error = NoError <=> Code(ret.recv) = OK)
    /\ \A e \in errs : e.s # NIL /\ statuses[e.s].s # NIL /\ Code(e.s) # OK

ErrNilIffOKWitness ==
    /\ ret.op = "Err" /\ ret.c = OK /\ ret.error = NoError
    /\ \E e \in errs : origin[e.s].entry = "Errorf"

WithDetailsAllOrNothing ==
    ret.op = "WithDetails" =>
       /\ ret.res # NIL <=>
             /\ Code(ret.recv) # OK
             /\ \A i \in DOMAIN ret.details : ~MarshalAny(ret.details[i]).err
       /\ ret.err <=> ret.res = NIL
       /\ ret.res # NIL => Len(View(ret.res).details) = Len(View(ret.recv).details) + Len(ret.details)

WithDetailsAllOrNothingWitness ==
    /\ ret.op = "WithDetails" /\ ret.err /\ ret.res = NIL
    /\ Code(ret.recv) # OK
    /\ Len(ret.details) = 2
    /\ ~MarshalAny(ret.details[1]).err /\ MarshalAny(ret.details[2]).err

\* C4: a Status never changes: whatever the next call is (WithDetails,
\* Proto, FromProto, a write to a wire record the caller holds), every
\* existing Status keeps its code, message and envelopes, and no Status
\* shares its record with another Status or with the caller.
Immutable ==
    [][ /\ \A p \in 1..Len(statuses) : View(p)' = View(p)
        /\ \A p \in 1..Len(statuses') :
              statuses'[p].s # NIL =>
                 /\ statuses'[p].s \notin DOMAIN wire'
                 /\ \A q \in 1..Len(statuses') : q # p => statuses'[q].s # statuses'[p].s ]_vars

ImmutableWitness ==
    /\ ret.op = "MutateWire" /\ ret.was # NIL
    /\ \E p \in 1..Len(statuses) :
          /\ origin[p].via = "FromProto" /\ origin[p].from = ret.a
          /\ View(p).details # heap[ret.a].Details

\* C5: after s.WithDetails(d1..dn) succeeds, Details() of the result is
\* Details() of s followed by d1..dn.
WithDetailsThenDetails ==
    (ret.op = "WithDetails" /\ ~ret.err) =>
       Details(Deref(ret.res)) = Details(Deref(ret.recv)) \o ret.details

WithDetailsThenDetailsWitness ==
    /\ ret.op = "WithDetails" /\ ~ret.err
    /\ Len(ret.details) = 2
    /\ Details(Deref(ret.recv)) # <<>>

\* C6: Details() returns one result per envelope, in order; slot i is the
\* decode-failure marker exactly when envelope i does not decode, and
\* otherwise the message that envelope i encodes.
DetailsSlots ==
    ret.op = "Details" =>
       LET envs == Envelopes(Deref(ret.recv))
       IN /\ Len(ret.res) = Len(envs)
          /\ \A i \in DOMAIN envs :
                /\ ret.res[i] = ErrMarker <=> UnmarshalAny(envs[i]).err
                /\ ret.res[i] # ErrMarker =>
                      /\ ~MarshalAny(ret.res[i]).err
                      /\ MarshalAny(ret.res[i]).any = envs[i]

DetailsSlotsWitness ==
    /\ ret.op = "Details" /\ Len(ret.res) = 3
    /\ ret.res[1] # ErrMarker /\ ret.res[2] = ErrMarker /\ ret.res[3] # ErrMarker

SitesNeverEqual ==
    ( /\ ret.op = "Is" /\ ret.target.kind = "Error"
      /\ origin[ret.e.s].entry = "New" /\ origin[ret.target.s].entry = "New"
      /\ Head(origin[ret.e.s].chain) # Head(origin[ret.target.s].chain)
      /\ Code(ret.e.s) = Code(ret.target.s)
      /\ Message(ret.e.s) = Message(ret.target.s) )
    => ~ret.res

\* C9: when the debug-info detail fails to marshal, New and
\* NewWithoutStacks still return a Status with the requested code and
\* message and without the detail.
ConstructionDegrades ==
    ( /\ ret.op \in {"New", "Newf", "NewWithoutStacks"}
      /\ ret.c # OK /\ ret.marshalErr )
    => /\ ret.res # NIL
       /\ View(ret.res) = [code |-> ret.c, message |-> ret.msg, details |-> <<>>]

\* C10, as claimed: every Status whose Code() is OK has no details.
OKHasNoDetails ==
    \A p \in Ptrs : Code(p) = OK => Details(Deref(p)) = <<>>

\* C10, amended: a Status whose Code() is OK has details only if FromProto
\* made it, and FromProto keeps the envelopes of its wire record whatever
\* the code; New, NewWithoutStacks and WithDetails return no Status with
\* code OK.
OKDetailsOnlyFromWire ==
    /\ \A p \in 1..Len(statuses) :
          origin[p].via # "FromProto" => Code(p) # OK /\ statuses[p].s # NIL
    /\ (ret.op \in {"New", "Newf", "NewWithoutStacks", "WithDetails"} /\ Code(ret.res) = OK) =>
          ret.res = NIL /\ Details(Deref(ret.res)) = <<>>
    /\ (ret.op = "FromProto" /\ ret.w # NIL) =>
          View(ret.res).details = heap[ret.w].Details

OKDetailsOnlyFromWireWitness ==
    /\ ret.op = "WithDetails" /\ ret.err /\ ret.recv # NIL
    /\ Code(ret.recv) = OK /\ Details(Deref(ret.recv)) # <<>>
    /\ ret.details # <<>>

\* C11: Stacks() does not fail; it returns the formatted text of the
\* debug-info envelope when the wrapped Status holds one, and the empty text
\* when it holds none.
StacksDebugInfoOrEmpty ==
    ret.op = "Stacks" =>
       /\ ~ret.panic
       /\ LET ds == Envelopes(Deref(ret.e.s))
              dbg == {i \in DOMAIN ds : ds[i].type_url = TypeURL.DebugInfo}
          IN IF dbg = {} THEN ret.res = <<>>
             ELSE \E i \in dbg :
                     ret.res = Replace(Replace(AnyString(ds[i]), <<92, 110>>, <<10>>), <<92, 116>>, <<9>>)

\* C12: for every code c other than OK, message m and call chain, New(c, m)
\* returns a Status with Code() c, Message() m and a non-nil Err(), whose
\* Details() is exactly one entry, a DebugInfo with non-empty stack text.
NewCarriesStack ==
    (ret.op = "New" /\ ret.c # OK) =>
       /\ ret.res # NIL
       /\ Code(ret.res) = ret.c
       /\ Message(ret.res) = ret.msg
       /\ StatusErr(Deref(ret.res), ret.res) # NoError
       /\ LET d == Details(Deref(ret.res))
          IN /\ Len(d) = 1
             /\ d[1].typ = "DebugInfo"
             /\ Len(d[1].entries) = 1
             /\ d[1].entries[1] # <<>>

\* C13: whatever the entry point (New, Newf, Err, Errorf) and the call
\* chain, the frames captured are the chain from the caller of the entry
\* point on, in call order, cut to at most depth frames.
CaptureStartsAtCaller ==
    (ret.op \in {"New", "Newf", "Err", "Errorf"} /\ ret.c # OK) =>
       LET p == IF ret.op \in {"Err", "Errorf"} THEN ret.error.s ELSE ret.res
           d == Details(Deref(p))
       IN /\ Len(d) = 1
          /\ d[1].entries = <<FormatStackTrace(SubSeq(ret.chain, 1, Min(Len(ret.chain), depth)))>>

\* C14: m.Equal(o) is true if and only if o is an mdValue with the key set
\* of m and, for every key, the list of values of m in the same order;
\* hence m.Equal(o) = o.Equal(m).
MDEqualIffSame ==
    ret.op = "Equal" =>
       /\ ret.res <=>
             /\ ret.o.kind = "mdValue"
             /\ DOMAIN ret.o.md = DOMAIN ret.m
             /\ \A k \in DOMAIN ret.m :
                   /\ Len(ret.o.md[k]) = Len(ret.m[k])
                   /\ \A i \in DOMAIN ret.m[k] : ret.o.md[k][i] = ret.m[k][i]
       /\ ret.o.kind = "mdValue" => (ret.res <=> Equal(ret.o.md, mdValue(ret.m)))
====
